---------------------------- MODULE Spec2Model ----------------------------
(***************************************************************************)
(* A model of sbt (pbt-simple): the `install` command                      *)
(* (sbt/commands/install.py), the requirement merge find_common_specs and  *)
(* the dependency graph PkgGraph (sbt/package/graph.py).                   *)
(*                                                                         *)
(* Three specifications share the variables below:                         *)
(*   Spec      - the install command as a state machine over the files of  *)
(*               every package's directory and cache directory;            *)
(*   SpecFCS   - find_common_specs applied to bounded inputs;              *)
(*   SpecGraph - PkgGraph.from_pkgs applied to bounded inputs.             *)
(***************************************************************************)
EXTENDS Integers, Sequences, FiniteSets, TLC

VARIABLES
    \* ---- install command -------------------------------------------------
    packages,                  \* discover_packages(): sequence of Package (dict order)
    package,                   \* the CLI argument: name of the target package
    ignore_invalid_dependency, \* the CLI flag
    pc,                        \* position of the command
    runs,                      \* number of invocations started so far
    thirdparty_pkgs,           \* dict depname -> [pkgs: set of names, specs: DepConstraints]
    invalid_thirdparty_pkgs,   \* set of depnames
    pkg_i,                     \* loop position: index into packages
    dep_i,                     \* loop position: index into pkg.dependencies
    reports,                   \* logger.error reports of the aggregation
    loc,                       \* per package: files at pkg.location
    cache,                     \* per package: files in cfg.pkg_cache_dir(pkg)
    cur,                       \* the package whose install is in progress
    sib_i,                     \* loop position in local_dep_pkgs
    masked,                    \* what mask_file saved for the bare install in progress
    calls,                     \* toolchain commands executed in this invocation
    raised,                    \* the exception in flight / that ended the command
    entry,                     \* files of cur at the entry of install_pkg_dependencies
    start,                     \* all files at the start of the invocation
    \* ---- find_common_specs ----------------------------------------------
    depspecs,
    another_depspecs,
    fcs_result,
    \* ---- PkgGraph.from_pkgs ---------------------------------------------
    pkgs,
    graph,
    query,                     \* a dependencies() query on the built graph
    \* ---- command line entry point (__main__) ----------------------------
    argv,                      \* what the user asked for: a subcommand or --version
    version,                   \* module level `version`
    latest_version,            \* local of check_upgrade
    log,                       \* levels of the records logged by check_upgrade
    events,                    \* registry queries and subcommand runs, in order
    cli_pc,                    \* position of the invocation
    exit_code

vars == <<packages, package, ignore_invalid_dependency, pc, runs,
          thirdparty_pkgs, invalid_thirdparty_pkgs, pkg_i, dep_i, reports,
          loc, cache, cur, sib_i, masked, calls, raised, entry, start,
          depspecs, another_depspecs, fcs_result, pkgs, graph, query,
          argv, version, latest_version, log, events, cli_pc, exit_code>>

installVars == <<packages, package, ignore_invalid_dependency, pc, runs,
                 thirdparty_pkgs, invalid_thirdparty_pkgs, pkg_i, dep_i, reports,
                 loc, cache, cur, sib_i, masked, calls, raised, entry,
                 start>>

fcsVars == <<depspecs, another_depspecs, fcs_result>>

graphVars == <<pkgs, graph, query>>

cliVars == <<argv, version, latest_version, log, events, cli_pc, exit_code>>

(***************************************************************************)
(* Bounds                                                                  *)
(***************************************************************************)
\* largest version number written in a version range
MaxVer == 2
\* longest DepConstraints list given to find_common_specs
MaxSpecs == 2
\* number of install invocations in one behaviour
MaxRuns == 2

None == "<None>"
NoFile == [kind |-> "absent"]

(***************************************************************************)
(* Version ranges.  A version-range text is the sequence of its clauses as *)
(* written; a clause is <<operator, version>>.                             *)
(***************************************************************************)
Versions == 0..(MaxVer + 1)

OpRank(op) ==
    CASE op = "!=" -> 1
      [] op = "<"  -> 2
      [] op = "<=" -> 3
      [] op = "==" -> 4
      [] op = ">"  -> 5
      [] op = ">=" -> 6

Satisfies(v, clause) ==
    CASE clause[1] = "!=" -> v # clause[2]
      [] clause[1] = "<"  -> v < clause[2]
      [] clause[1] = "<=" -> v <= clause[2]
      [] clause[1] = "==" -> v = clause[2]
      [] clause[1] = ">"  -> v > clause[2]
      [] clause[1] = ">=" -> v >= clause[2]

\* parse_version_spec: the text's clauses as a VersionSpec (a clause set)
parse_version_spec(text) == {text[i] : i \in DOMAIN text}

Contradictory(clauses) == ~ \E v \in Versions : \A c \in clauses : Satisfies(v, c)

\* VersionSpec.intersect: the union of the clauses; ValueError when no
\* version satisfies all of them
intersect(specver, anotherspecver) ==
    IF Contradictory(specver \cup anotherspecver)
    THEN [ok |-> FALSE, spec |-> {}]
    ELSE [ok |-> TRUE, spec |-> specver \cup anotherspecver]

ClauseLess(c, d) ==
    \/ OpRank(c[1]) < OpRank(d[1])
    \/ OpRank(c[1]) = OpRank(d[1]) /\ c[2] < d[2]

RECURSIVE SortClauses(_)
SortClauses(clauses) ==
    IF clauses = {} THEN << >>
    ELSE LET m == CHOOSE c \in clauses : \A d \in clauses \ {c} : ClauseLess(c, d)
         IN <<m>> \o SortClauses(clauses \ {m})

\* VersionSpec.to_pep508_string: the clauses sorted by operator then version
to_pep508_string(specver) == SortClauses(specver)

(***************************************************************************)
(* DepConstraint and find_common_specs                                     *)
(***************************************************************************)
DepConstraint(version_spec, constraint, version_spec_field, origin_spec) ==
    [version_spec |-> version_spec, constraint |-> constraint,
     version_spec_field |-> version_spec_field, origin_spec |-> origin_spec]

\* `x.constraint or ""`
LabelOf(x) == IF x.constraint = None THEN "" ELSE x.constraint

\* {x.constraint or "": x for x in depspecs}: the keys in first-insertion
\* order, each mapped to the LAST entry carrying it
DictKeys(specs) ==
    LET first == {i \in DOMAIN specs :
                    \A j \in 1..(i - 1) : LabelOf(specs[j]) # LabelOf(specs[i])}
        RECURSIVE Walk(_)
        Walk(i) == IF i > Len(specs) THEN << >>
                   ELSE (IF i \in first THEN <<LabelOf(specs[i])>> ELSE << >>)
                        \o Walk(i + 1)
    IN Walk(1)

DictGet(specs, label) ==
    LET last == CHOOSE i \in DOMAIN specs :
                    /\ LabelOf(specs[i]) = label
                    /\ \A j \in (i + 1)..Len(specs) : LabelOf(specs[j]) # label
    IN specs[last]

SeqToSet(s) == {s[i] : i \in DOMAIN s}

MergedEntryOfSecondSide(specver, constraint, spec, anotherspec) ==
    DepConstraint(to_pep508_string(specver), constraint,
                  anotherspec.version_spec_field, anotherspec.origin_spec)

\* install.py 317-324: the entry appended to newspecs
MergedEntry(specver, constraint, spec, anotherspec) ==
    DepConstraint(to_pep508_string(specver), constraint,
                  spec.version_spec_field, spec.origin_spec)

\* The loop of find_common_specs over specs.items(), from position i on.
\* Stops at the first contradictory intersection.
RECURSIVE MergeFrom(_, _, _, _)
MergeFrom(keys, specsA, specsB, i) ==
    IF i > Len(keys) THEN [ok |-> TRUE, error |-> None, specs |-> << >>]
    ELSE LET constraint == keys[i]
             spec == DictGet(specsA, constraint)
             anotherspec == DictGet(specsB, constraint)
             specver == intersect(parse_version_spec(spec.version_spec),
                                  parse_version_spec(anotherspec.version_spec))
         IN IF ~ specver.ok
            THEN [ok |-> FALSE, error |-> "incompatible specs", specs |-> << >>]
            ELSE LET rest == MergeFrom(keys, specsA, specsB, i + 1)
                 IN IF ~ rest.ok THEN rest
                    ELSE [ok |-> TRUE, error |-> None,
                          specs |-> <<MergedEntry(specver.spec, constraint,
                                                  spec, anotherspec)>>
                                    \o rest.specs]

find_common_specs_NoDuplicateCheck(a, b) ==
    LET specs == DictKeys(a)
        anotherspecs == DictKeys(b)
    IN IF SeqToSet(specs) # SeqToSet(anotherspecs)
       THEN [ok |-> FALSE, error |-> "different number of specs", specs |-> << >>]
       ELSE MergeFrom(specs, a, b, 1)

\* install.py 285-325
find_common_specs(a, b) ==
    LET specs == DictKeys(a)
        anotherspecs == DictKeys(b)
    IN IF ~ (Len(specs) = Len(a) /\ Len(anotherspecs) = Len(b))
       THEN [ok |-> FALSE, error |-> "duplicated specs", specs |-> << >>]
       ELSE IF SeqToSet(specs) # SeqToSet(anotherspecs)
       THEN [ok |-> FALSE, error |-> "different number of specs", specs |-> << >>]
       ELSE MergeFrom(specs, a, b, 1)


(***************************************************************************)
(* Package and PkgGraph.from_pkgs                                          *)
(***************************************************************************)
\* a dict as the sequence of its (key, value) items
Package(name, type, include, dependencies) ==
    [name |-> name, version |-> "0.1.0", type |-> type, include |-> include,
     dependencies |-> dependencies]

Names(ps) == {ps[i].name : i \in DOMAIN ps}

DepNames(pkg) == {pkg.dependencies[j][1] : j \in DOMAIN pkg.dependencies}

ThirdPartyPackage(name, type, invert_dependencies) ==
    [kind |-> "ThirdPartyPackage", name |-> name, type |-> type,
     invert_dependencies |-> invert_dependencies]

\* g.has_node
has_node(g, n) == n \in DOMAIN g.pkg

\* g.add_node(n, pkg=data): a new node goes last; an existing node keeps
\* its place and gets the new attribute
add_node(g, n, data) ==
    [nodes |-> IF has_node(g, n) THEN g.nodes ELSE Append(g.nodes, n),
     pkg   |-> [m \in DOMAIN g.pkg \cup {n} |-> IF m = n THEN data ELSE g.pkg[m]],
     adj   |-> [m \in DOMAIN g.adj \cup {n} |->
                  IF m \in DOMAIN g.adj THEN g.adj[m] ELSE << >>]]

\* g.add_edge(u, v) between existing nodes: adjacency keeps insertion order
add_edge(g, u, v) ==
    [g EXCEPT !.adj[u] = IF v \in SeqToSet(@) THEN @ ELSE Append(@, v)]

\* graph.py 38-39
RECURSIVE AddLocalNodes(_, _, _)
AddLocalNodes(g, ps, i) ==
    IF i > Len(ps) THEN g
    ELSE AddLocalNodes(add_node(g, ps[i].name,
                                [kind |-> "Package", name |-> ps[i].name,
                                 type |-> ps[i].type,
                                 invert_dependencies |-> << >>]),
                       ps, i + 1)

InvertDependenciesOfLastOnly(invert_dependencies, name, specs) ==
    [n \in {name} |-> specs]

\* graph.py 50-52: invert_dependencies[pkg.name] = specs
SetInvertDependency(invert_dependencies, name, specs) ==
    [n \in DOMAIN invert_dependencies \cup {name} |->
        IF n = name THEN specs ELSE invert_dependencies[n]]

AddDependencyEdgeOnlyToNewNode(g, pkg, dep, specs) ==
    IF ~ has_node(g, dep)
    THEN add_edge(add_node(g, dep,
                           ThirdPartyPackage(dep, pkg.type,
                                             [n \in {pkg.name} |-> specs])),
                  pkg.name, dep)
    ELSE IF g.pkg[dep].kind = "ThirdPartyPackage"
    THEN add_edge([g EXCEPT !.pkg[dep].invert_dependencies =
                      SetInvertDependency(@, pkg.name, specs)],
                  pkg.name, dep)
    ELSE g

\* graph.py 42-53: one dependency of one package
AddDependency(g, pkg, dep, specs) ==
    LET g1 == IF ~ has_node(g, dep)
              THEN add_node(g, dep,
                       ThirdPartyPackage(dep, pkg.type,
                                         [n \in {pkg.name} |-> specs]))
              ELSE IF g.pkg[dep].kind = "ThirdPartyPackage"
              THEN [g EXCEPT !.pkg[dep].invert_dependencies =
                       SetInvertDependency(@, pkg.name, specs)]
              ELSE g
    IN add_edge(g1, pkg.name, dep)

\* graph.py 41-53
RECURSIVE AddDependencies(_, _, _, _)
AddDependencies(g, ps, i, j) ==
    IF i > Len(ps) THEN g
    ELSE IF j > Len(ps[i].dependencies) THEN AddDependencies(g, ps, i + 1, 1)
    ELSE AddDependencies(AddDependency(g, ps[i], ps[i].dependencies[j][1],
                                       ps[i].dependencies[j][2]),
                         ps, i, j + 1)

\* nx.find_cycle(g, orientation="original"): a depth-first search from
\* every node that reports an edge leading back to a node of the active path
RECURSIVE CycleFrom(_, _, _)
CycleFrom(g, n, active) ==
    \E k \in DOMAIN g.adj[n] :
        \/ g.adj[n][k] \in active
        \/ CycleFrom(g, g.adj[n][k], active \cup {g.adj[n][k]})

find_cycle(g) == \E n \in SeqToSet(g.nodes) : CycleFrom(g, n, {n})

EmptyGraph == [nodes |-> << >>, pkg |-> << >>, adj |-> << >>]

from_pkgs(ps) ==
    LET g == AddDependencies(AddLocalNodes(EmptyGraph, ps, 1), ps, 1, 1)
    IN IF find_cycle(g)
       THEN [ok |-> FALSE, error |-> "Found cyclic dependencies", g |-> EmptyGraph]
       ELSE [ok |-> TRUE, error |-> None, g |-> g]

\* nx.dfs_preorder_nodes(g, source): the source, then, for each successor
\* in adjacency order that is not yet visited, its own pre-order
RECURSIVE DfsVisit(_, _, _)
RECURSIVE DfsChildren(_, _, _, _)
DfsVisit(g, n, visited) == DfsChildren(g, n, 1, Append(visited, n))

DfsChildren(g, n, k, visited) ==
    IF k > Len(g.adj[n]) THEN visited
    ELSE IF g.adj[n][k] \in SeqToSet(visited)
    THEN DfsChildren(g, n, k + 1, visited)
    ELSE DfsChildren(g, n, k + 1, DfsVisit(g, g.adj[n][k], visited))

dfs_preorder_nodes(g, source) == DfsVisit(g, source, << >>)

dependenciesKeepsSource(g, pkg_name) ==
    LET nodes == dfs_preorder_nodes(g, pkg_name)
    IN [i \in DOMAIN nodes |-> g.pkg[nodes[i]]]

\* graph.py 67-77
dependencies(g, pkg_name) ==
    LET nodes == Tail(dfs_preorder_nodes(g, pkg_name))
    IN [i \in DOMAIN nodes |-> g.pkg[nodes[i]]]

\* graph.py 79-89
third_party_dependencies(g, pkg_name) ==
    SelectSeq(dependencies(g, pkg_name), LAMBDA pkg : pkg.kind = "ThirdPartyPackage")

\* graph.py 91-101
local_dependencies(g, pkg_name) ==
    SelectSeq(dependencies(g, pkg_name), LAMBDA pkg : pkg.kind = "Package")

(***************************************************************************)
(* Input sets                                                              *)
(***************************************************************************)
SeqsUpTo(S, n) == UNION {[1..k -> S] : k \in 0..n}

GE1 == <<">=", 1>>
LT1 == <<"<", 1>>
LT2 == <<"<", MaxVer>>

\* first argument of find_common_specs: plain entries and structured ones
FirstSideEntries ==
    {DepConstraint(t, c, None, None) :
        t \in {<<GE1>>, <<LT2, GE1>>}, c \in {None, "", "extra1"}}
    \cup {DepConstraint(t, c, "version", "o1") :
        t \in {<<GE1>>, <<LT2, GE1>>}, c \in {None, "", "extra1"}}

SecondSideEntries ==
    {DepConstraint(t, c, "rev", "o2") :
        t \in {<<GE1>>, <<LT1>>, <<LT2>>}, c \in {None, "", "extra1"}}

Pending == [ok |-> FALSE, error |-> "<pending>"]

(***************************************************************************)
(* The three specifications leave the others' variables at rest            *)
(***************************************************************************)
InstallAtRest ==
    /\ packages = << >>
    /\ package = None
    /\ ignore_invalid_dependency = FALSE
    /\ pc = "rest"
    /\ runs = 0
    /\ thirdparty_pkgs = << >>
    /\ invalid_thirdparty_pkgs = {}
    /\ pkg_i = 0
    /\ dep_i = 0
    /\ reports = << >>
    /\ loc = << >>
    /\ cache = << >>
    /\ cur = None
    /\ sib_i = 0
    /\ masked = << >>
    /\ calls = << >>
    /\ raised = None
    /\ entry = << >>
    /\ start = << >>

FCSAtRest ==
    /\ depspecs = << >>
    /\ another_depspecs = << >>
    /\ fcs_result = Pending

NoQuery == [pkg_name |-> None]

GraphAtRest ==
    /\ pkgs = << >>
    /\ graph = Pending
    /\ query = NoQuery

Unset == "<unset>"

CLIAtRest ==
    /\ argv = None
    /\ version = Unset
    /\ latest_version = Unset
    /\ log = << >>
    /\ events = << >>
    /\ cli_pc = "none"
    /\ exit_code = None

(***************************************************************************)
(* SpecFCS: find_common_specs on bounded inputs                            *)
(***************************************************************************)
InitFCS ==
    /\ depspecs \in SeqsUpTo(FirstSideEntries, MaxSpecs)
    /\ another_depspecs \in SeqsUpTo(SecondSideEntries, MaxSpecs)
    /\ fcs_result = Pending
    /\ InstallAtRest
    /\ GraphAtRest
    /\ CLIAtRest

FindCommonSpecs ==
    /\ fcs_result = Pending
    /\ fcs_result' = find_common_specs(depspecs, another_depspecs)
    /\ UNCHANGED <<depspecs, another_depspecs>>
    /\ UNCHANGED installVars
    /\ UNCHANGED graphVars
    /\ UNCHANGED cliVars

NextFCS == FindCommonSpecs

SpecFCS == InitFCS /\ [][NextFCS]_vars

(***************************************************************************)
(* SpecGraph: PkgGraph.from_pkgs on bounded inputs                         *)
(***************************************************************************)
LocalNames == <<"a", "b", "c">>
GraphDepNames == {"a", "b", "c", "x"}
TypeOf(n) == IF n = "b" THEN "maturin" ELSE "poetry"
SpecsOf(n) == IF n = "a" THEN <<DepConstraint(<<GE1>>, None, None, None)>>
              ELSE IF n = "b" THEN <<DepConstraint(<<LT2>>, None, None, None)>>
              ELSE <<DepConstraint(<<LT2, GE1>>, None, None, None)>>

\* dependency dicts of at most MaxDeps distinct names
MaxDeps == 2

DepLists ==
    {s \in SeqsUpTo(GraphDepNames, MaxDeps) :
        \A i, j \in DOMAIN s : i # j => s[i] # s[j]}

InitGraph ==
    /\ \E n \in 1..Len(LocalNames) :
       \E d \in [1..n -> DepLists] :
          pkgs = [i \in 1..n |->
                    Package(LocalNames[i], TypeOf(LocalNames[i]),
                            <<LocalNames[i]>>,
                            [j \in DOMAIN d[i] |-> <<d[i][j], SpecsOf(LocalNames[i])>>])]
    /\ graph = Pending
    /\ query = NoQuery
    /\ InstallAtRest
    /\ FCSAtRest
    /\ CLIAtRest

FromPkgs ==
    /\ graph = Pending
    /\ graph' = from_pkgs(pkgs)
    /\ UNCHANGED <<pkgs, query>>
    /\ UNCHANGED installVars
    /\ UNCHANGED fcsVars
    /\ UNCHANGED cliVars

\* graph.py 67-101: dependencies, third_party_dependencies and
\* local_dependencies of one local package of the built graph
Dependencies ==
    /\ graph # Pending
    /\ graph.ok
    /\ query = NoQuery
    /\ \E pkg_name \in Names(pkgs) :
          query' = [pkg_name |-> pkg_name,
                    dependencies |-> dependencies(graph.g, pkg_name),
                    third_party_dependencies |->
                        third_party_dependencies(graph.g, pkg_name),
                    local_dependencies |-> local_dependencies(graph.g, pkg_name)]
    /\ UNCHANGED <<pkgs, graph>>
    /\ UNCHANGED installVars
    /\ UNCHANGED fcsVars
    /\ UNCHANGED cliVars

NextGraph ==
    \/ FromPkgs
    \/ Dependencies

SpecGraph == InitGraph /\ [][NextGraph]_vars

(***************************************************************************)
(* The install command (install.py)                                        *)
(***************************************************************************)
AllNames == {"a", "b", "c"}

\* file contents
RealToml(n) == [kind |-> "real", name |-> n]
\* the toolchain's lock file records the manifest it was resolved for
LockFor(manifest) == [kind |-> "lock", of |-> manifest]
RealLock(n) == LockFor(RealToml(n))

NoEntry == [pkg |-> None, pyproject |-> NoFile, lock |-> NoFile, modLock |-> NoFile]
NoMask == [pyproject |-> NoFile, lock |-> NoFile]
EmptyCache == [modToml |-> NoFile, origToml |-> NoFile,
               modLock |-> NoFile, origLock |-> NoFile]

\* packages[name]
PkgByName(ps, n) == ps[CHOOSE i \in DOMAIN ps : ps[i].name = n]

\* the `packages` entry of a generated manifest (install.py 146-147, 176-177)
PackagesEntry(pkg) ==
    IF \E i \in DOMAIN pkg.include : pkg.include[i] # pkg.name
    THEN [present |-> TRUE, include |-> pkg.include]
    ELSE [present |-> FALSE, include |-> << >>]

\* install.py 328-342
serialize_dep_specs(specs) ==
    LET item(spec) ==
            IF spec.origin_spec = None
            THEN [inline |-> FALSE, field |-> None,
                  value |-> spec.version_spec, origin |-> None]
            ELSE [inline |-> TRUE, field |-> spec.version_spec_field,
                  value |-> spec.version_spec, origin |-> spec.origin_spec]
        items == [i \in DOMAIN specs |-> item(specs[i])]
    IN [array |-> Len(items) # 1, items |-> items]

DepsArgumentOfTargetOnly(tp) ==
    LET own == SelectSeq(tp, LAMBDA e : package \in e.pkgs)
    IN [i \in DOMAIN own |-> [depname |-> own[i].depname, specs |-> own[i].specs]]

\* install.py 113: {depname: depspecs for depname, (_, depspecs) in thirdparty_pkgs.items()}
DepsArgument(tp) == [i \in DOMAIN tp |-> [depname |-> tp[i].depname, specs |-> tp[i].specs]]

\* install.py 168-193: the document written to pyproject.modified.toml
ModifiedManifest(pkg, deps) ==
    [kind |-> "modified", name |-> pkg.name, version |-> pkg.version,
     packages |-> PackagesEntry(pkg),
     dependencies |-> [i \in DOMAIN deps |->
                         [depname |-> deps[i].depname,
                          value |-> serialize_dep_specs(deps[i].specs)]]]

\* install.py 138-157: the document written by install_bare_pkg
BareManifest(pkg) ==
    [kind |-> "bare", name |-> pkg.name, version |-> pkg.version,
     packages |-> PackagesEntry(pkg)]

\* venv_path(name, location, virtualenvs_path, python_path), for the one
\* configuration of an invocation
venv_path(name) == [venv |-> name]

\* install.py 117
local_dep_pkgs == SelectSeq(packages, LAMBDA p : p.name # package)

\* the next (package, dependency) item of the loops at install.py 81-82
RECURSIVE NextItem(_, _, _)
NextItem(ps, i, j) ==
    IF i > Len(ps) THEN <<i, 1>>
    ELSE IF j > Len(ps[i].dependencies) THEN NextItem(ps, i + 1, 1)
    ELSE <<i, j>>

TpHas(tp, dep) == \E i \in DOMAIN tp : tp[i].depname = dep
TpIndex(tp, dep) == CHOOSE i \in DOMAIN tp : tp[i].depname = dep

\* install.py 60-80
StartInstall ==
    /\ pc \in {"idle", "exit"}
    /\ runs < MaxRuns
    /\ \E target \in {"a", "b", "zz"}, flag \in BOOLEAN :
          /\ package' = target
          /\ ignore_invalid_dependency' = flag
    /\ runs' = runs + 1
    /\ thirdparty_pkgs' = << >>
    /\ invalid_thirdparty_pkgs' = {}
    /\ pkg_i' = NextItem(packages, 1, 1)[1]
    /\ dep_i' = NextItem(packages, 1, 1)[2]
    /\ reports' = << >>
    /\ calls' = << >>
    /\ raised' = None
    /\ cur' = None
    /\ sib_i' = 0
    /\ masked' = NoMask
    /\ entry' = NoEntry
    /\ start' = [loc |-> loc, cache |-> cache]
    /\ pc' = "aggregate"
    /\ UNCHANGED <<packages, loc, cache>>
    /\ UNCHANGED fcsVars
    /\ UNCHANGED graphVars
    /\ UNCHANGED cliVars

ToleratesConflictAlways == TRUE

\* install.py 105: `if ignore_invalid_dependency:` ... `else: raise`
ToleratesConflict == ignore_invalid_dependency

SkipsLocalDependencyOnly(depname) == depname \in Names(packages)

\* install.py 83: `if depname in packages or depname in invalid_thirdparty_pkgs`
SkipsDependency(depname) ==
    depname \in Names(packages) \/ depname \in invalid_thirdparty_pkgs

\* install.py 82-108: the loop body for one dependency of one package
AggregateDep ==
    /\ pc = "aggregate"
    /\ pkg_i <= Len(packages)
    /\ LET pkg == packages[pkg_i]
           depname == pkg.dependencies[dep_i][1]
           specs == pkg.dependencies[dep_i][2]
           nxt == NextItem(packages, pkg_i, dep_i + 1)
           k == TpIndex(thirdparty_pkgs, depname)
           requiring == thirdparty_pkgs[k].pkgs \cup {pkg.name}
           merged == find_common_specs(thirdparty_pkgs[k].specs, specs)
       IN IF SkipsDependency(depname)
          THEN /\ pkg_i' = nxt[1] /\ dep_i' = nxt[2]
               /\ UNCHANGED <<thirdparty_pkgs, invalid_thirdparty_pkgs, reports,
                              raised, pc>>
          ELSE IF ~ TpHas(thirdparty_pkgs, depname)
          THEN /\ thirdparty_pkgs' =
                     Append(thirdparty_pkgs,
                            [depname |-> depname, pkgs |-> {pkg.name}, specs |-> specs])
               /\ pkg_i' = nxt[1] /\ dep_i' = nxt[2]
               /\ UNCHANGED <<invalid_thirdparty_pkgs, reports, raised, pc>>
          ELSE IF merged.ok
          THEN /\ thirdparty_pkgs' =
                     [thirdparty_pkgs EXCEPT ![k] =
                         [depname |-> depname, pkgs |-> requiring,
                          specs |-> merged.specs]]
               /\ pkg_i' = nxt[1] /\ dep_i' = nxt[2]
               /\ UNCHANGED <<invalid_thirdparty_pkgs, reports, raised, pc>>
          ELSE /\ thirdparty_pkgs' = [thirdparty_pkgs EXCEPT ![k].pkgs = requiring]
               /\ reports' = Append(reports, [depname |-> depname, pkgs |-> requiring])
               /\ IF ToleratesConflict
                  THEN /\ invalid_thirdparty_pkgs' = invalid_thirdparty_pkgs \cup {depname}
                       /\ pkg_i' = nxt[1] /\ dep_i' = nxt[2]
                       /\ UNCHANGED <<raised, pc>>
                  ELSE /\ raised' = "IncompatibleDependencyError"
                       /\ pc' = "exit"
                       /\ UNCHANGED <<invalid_thirdparty_pkgs, pkg_i, dep_i>>
    /\ UNCHANGED <<packages, package, ignore_invalid_dependency, runs, loc, cache,
                   cur, sib_i, masked, calls, entry, start>>
    /\ UNCHANGED fcsVars
    /\ UNCHANGED graphVars
    /\ UNCHANGED cliVars

\* the outcome of a dict lookup under a key the dict does not hold
KeyError == [name |-> None]

TargetLookupOrFirst(ps, name) ==
    IF name \in Names(ps) THEN PkgByName(ps, name) ELSE ps[1]

\* install.py 112: packages[package]
TargetLookup(ps, name) ==
    IF name \in Names(ps) THEN PkgByName(ps, name) ELSE KeyError

\* install.py 111-115 and 168-193: packages[package] is looked up, then
\* install_pkg_dependencies writes the merged manifest into the cache
WriteModifiedManifest ==
    /\ pc = "aggregate"
    /\ pkg_i > Len(packages)
    /\ LET pkg == TargetLookup(packages, package)
       IN IF pkg = KeyError
          THEN /\ raised' = "KeyError"
               /\ pc' = "exit"
               /\ UNCHANGED <<cache, cur, entry>>
          ELSE /\ cache' = [cache EXCEPT ![pkg.name].modToml =
                               ModifiedManifest(pkg, DepsArgument(thirdparty_pkgs))]
               /\ cur' = pkg.name
               /\ entry' = [pkg |-> pkg.name,
                            pyproject |-> loc[pkg.name].pyproject,
                            lock |-> loc[pkg.name].lock,
                            modLock |-> cache[pkg.name].modLock]
               /\ pc' = "stage_manifest"
               /\ UNCHANGED raised
    /\ UNCHANGED <<packages, package, ignore_invalid_dependency, runs,
                   thirdparty_pkgs, invalid_thirdparty_pkgs, pkg_i, dep_i, reports,
                   loc, sib_i, masked, calls, start>>
    /\ UNCHANGED fcsVars
    /\ UNCHANGED graphVars
    /\ UNCHANGED cliVars

\* what the staging steps and the toolchain steps leave alone
StepFrame ==
    /\ UNCHANGED <<packages, package, ignore_invalid_dependency, runs,
                   thirdparty_pkgs, invalid_thirdparty_pkgs, pkg_i, dep_i, reports,
                   cur, sib_i, masked, entry, start>>
    /\ UNCHANGED fcsVars
    /\ UNCHANGED graphVars
    /\ UNCHANGED cliVars

\* a file operation of the try block raises: control goes to `finally`
OSErrorRaised ==
    /\ raised' = "OSError"
    /\ pc' = "finally"
    /\ UNCHANGED <<loc, cache>>

\* install.py 196-199
StageManifest ==
    /\ pc = "stage_manifest"
    /\ \E fails \in BOOLEAN :
          IF fails THEN OSErrorRaised
          ELSE /\ cache' = [cache EXCEPT ![cur].origToml = loc[cur].pyproject]
               /\ loc' = [loc EXCEPT ![cur].pyproject = NoFile]
               /\ pc' = "stage_lock"
               /\ UNCHANGED raised
    /\ UNCHANGED calls
    /\ StepFrame

\* install.py 200-204
StageLock ==
    /\ pc = "stage_lock"
    /\ IF loc[cur].lock = NoFile
       THEN /\ pc' = "copy_manifest"
            /\ UNCHANGED <<loc, cache, raised>>
       ELSE \E fails \in BOOLEAN :
              IF fails THEN OSErrorRaised
              ELSE /\ cache' = [cache EXCEPT ![cur].origLock = loc[cur].lock]
                   /\ loc' = [loc EXCEPT ![cur].lock = NoFile]
                   /\ pc' = "copy_manifest"
                   /\ UNCHANGED raised
    /\ UNCHANGED calls
    /\ StepFrame

\* install.py 205-208
CopyManifest ==
    /\ pc = "copy_manifest"
    /\ \E fails \in BOOLEAN :
          IF fails THEN OSErrorRaised
          ELSE /\ loc' = [loc EXCEPT ![cur].pyproject = cache[cur].modToml]
               /\ pc' = "copy_lock"
               /\ UNCHANGED <<cache, raised>>
    /\ UNCHANGED calls
    /\ StepFrame

ActiveLockSourceOrigin(files) == files.origLock

\* install.py 209-213: the cache file that is copied into place as poetry.lock
ActiveLockSource(files) == files.modLock

\* install.py 209-213
CopyLock ==
    /\ pc = "copy_lock"
    /\ IF ActiveLockSource(cache[cur]) = NoFile
       THEN /\ pc' = "tool_check"
            /\ UNCHANGED <<loc, cache, raised>>
       ELSE \E fails \in BOOLEAN :
              IF fails THEN OSErrorRaised
              ELSE /\ loc' = [loc EXCEPT ![cur].lock = ActiveLockSource(cache[cur])]
                   /\ pc' = "tool_check"
                   /\ UNCHANGED <<cache, raised>>
    /\ UNCHANGED calls
    /\ StepFrame

\* the `virtualenv` argument of install_poetry_package: None from
\* install_pkg_dependencies (install.py 215), pkg_venv_path from
\* install_bare_pkg (install.py 121-128, 159)
NoVirtualenv == [venv |-> None]

VirtualenvArgumentOmitted == NoVirtualenv

VirtualenvArgument ==
    IF cur = package THEN NoVirtualenv
    ELSE venv_path(PkgByName(packages, package).name)

\* install.py 239-245
Virtualenv ==
    IF VirtualenvArgument = NoVirtualenv THEN venv_path(cur) ELSE VirtualenvArgument

\* one exec() of the toolchain
Call(cmd, ok) ==
    [cmd |-> cmd, pkg |-> cur, venv |-> Virtualenv, quiet |-> cur # package,
     ok |-> ok]

\* where install_poetry_package returns or raises to
ReturnPc == IF cur = package THEN "finally" ELSE "unmask"

AfterCheckNeverRegenerates(ok) == "tool_install"

\* install.py 252-268: a failed check is caught and leads to the lock
\* regeneration, a passed check to the install step
AfterCheck(ok) == IF ok THEN "tool_install" ELSE "tool_lock"

\* install.py 251-262: `poetry check --lock` when a lock file is active
PoetryCheck ==
    /\ pc = "tool_check"
    /\ IF loc[cur].lock = NoFile
       THEN /\ pc' = "tool_install"
            /\ UNCHANGED calls
       ELSE \E ok \in BOOLEAN :
              /\ calls' = Append(calls, Call("check", ok))
              /\ pc' = AfterCheck(ok)
    /\ UNCHANGED <<loc, cache, raised>>
    /\ StepFrame

\* install.py 263-268: `poetry lock --no-update`
PoetryLock ==
    /\ pc = "tool_lock"
    /\ \E ok \in BOOLEAN :
          /\ calls' = Append(calls, Call("lock", ok))
          /\ IF ok
             THEN /\ loc' = [loc EXCEPT ![cur].lock = LockFor(loc[cur].pyproject)]
                  /\ pc' = "tool_install"
                  /\ UNCHANGED raised
             ELSE /\ raised' = "ExecProcessError"
                  /\ pc' = ReturnPc
                  /\ UNCHANGED loc
    /\ UNCHANGED cache
    /\ StepFrame

\* install.py 270-275: `poetry install`; without a lock file the toolchain
\* resolves and writes one before it installs, so a failed run may or may
\* not have written it
PoetryInstall ==
    /\ pc = "tool_install"
    /\ \E ok \in BOOLEAN, wrote \in BOOLEAN :
          /\ ok => wrote
          /\ calls' = Append(calls, Call("install", ok))
          /\ loc' = IF loc[cur].lock = NoFile /\ wrote
                    THEN [loc EXCEPT ![cur].lock = LockFor(loc[cur].pyproject)]
                    ELSE loc
          /\ raised' = IF ok THEN raised ELSE "ExecProcessError"
    /\ pc' = ReturnPc
    /\ UNCHANGED cache
    /\ StepFrame

RenamedAwayStaysBehind(files, name) == files

\* install.py 217-220 and 226-230: os.rename out of the cache directory
\* leaves no file under the old name
RenamedAway(files, name) == [files EXCEPT ![name] = NoFile]

AfterFinallyAlwaysSiblings == "siblings"

\* install.py 111-117: install_pkg_dependencies returns to the sibling
\* loop, or its exception ends the command
AfterFinally == IF raised = None THEN "siblings" ELSE "exit"

\* install.py 216-230, and the way out of install_pkg_dependencies
Finally ==
    /\ pc = "finally"
    /\ IF cache[cur].origToml = NoFile
       THEN /\ raised' = "FileNotFoundError"
            /\ pc' = "exit"
            /\ UNCHANGED <<loc, cache, sib_i>>
       ELSE LET activeLock == loc[cur].lock
                c1 == RenamedAway(cache[cur], "origToml")
                c2 == IF activeLock # NoFile
                      THEN [c1 EXCEPT !.modLock = activeLock] ELSE c1
                l2 == IF c2.origLock # NoFile THEN c2.origLock ELSE NoFile
                c3 == RenamedAway(c2, "origLock")
            IN /\ loc' = [loc EXCEPT ![cur] =
                             [pyproject |-> cache[cur].origToml, lock |-> l2]]
               /\ cache' = [cache EXCEPT ![cur] = c3]
               /\ pc' = AfterFinally
               /\ sib_i' = IF AfterFinally = "siblings" THEN 1 ELSE sib_i
               /\ UNCHANGED raised
    /\ UNCHANGED <<packages, package, ignore_invalid_dependency, runs,
                   thirdparty_pkgs, invalid_thirdparty_pkgs, pkg_i, dep_i, reports,
                   cur, masked, calls, entry, start>>
    /\ UNCHANGED fcsVars
    /\ UNCHANGED graphVars
    /\ UNCHANGED cliVars

\* mask_file on entry: the file, if present, is moved aside
MaskEnter(files) == [saved |-> files, now |-> NoMask]

\* mask_file on exit: the original is put back; a new file is removed when
\* there was no original
MaskExit(saved) == saved

\* install.py 127-128 and 133-157: the next sibling's manifest and lock are
\* masked and the bare manifest is written
BareEnter ==
    /\ pc = "siblings"
    /\ sib_i <= Len(local_dep_pkgs)
    /\ LET pkg == local_dep_pkgs[sib_i]
           m == MaskEnter(loc[pkg.name])
       IN /\ cur' = pkg.name
          /\ masked' = m.saved
          /\ loc' = [loc EXCEPT ![pkg.name] =
                        [m.now EXCEPT !.pyproject = BareManifest(pkg)]]
    /\ pc' = "tool_check"
    /\ UNCHANGED <<packages, package, ignore_invalid_dependency, runs,
                   thirdparty_pkgs, invalid_thirdparty_pkgs, pkg_i, dep_i, reports,
                   cache, sib_i, calls, raised, entry, start>>
    /\ UNCHANGED fcsVars
    /\ UNCHANGED graphVars
    /\ UNCHANGED cliVars

\* install.py 135-137: both masks are left, on return or on an exception of
\* install_poetry_package
BareExit ==
    /\ pc = "unmask"
    /\ loc' = [loc EXCEPT ![cur] = MaskExit(masked)]
    /\ masked' = NoMask
    /\ IF raised = None
       THEN pc' = "siblings" /\ sib_i' = sib_i + 1
       ELSE pc' = "exit" /\ UNCHANGED sib_i
    /\ UNCHANGED <<packages, package, ignore_invalid_dependency, runs,
                   thirdparty_pkgs, invalid_thirdparty_pkgs, pkg_i, dep_i, reports,
                   cache, cur, calls, raised, entry, start>>
    /\ UNCHANGED fcsVars
    /\ UNCHANGED graphVars
    /\ UNCHANGED cliVars

\* install.py 127-130: the sibling loop is over, the command returns
InstallReturns ==
    /\ pc = "siblings"
    /\ sib_i > Len(local_dep_pkgs)
    /\ pc' = "exit"
    /\ UNCHANGED <<packages, package, ignore_invalid_dependency, runs,
                   thirdparty_pkgs, invalid_thirdparty_pkgs, pkg_i, dep_i, reports,
                   loc, cache, cur, sib_i, masked, calls, raised, entry, start>>
    /\ UNCHANGED fcsVars
    /\ UNCHANGED graphVars
    /\ UNCHANGED cliVars

(***************************************************************************)
(* Spec: workspaces of three local packages a, b, c (discovery order).     *)
(* a depends on the local package b; a, b and c may each require the       *)
(* third-party x; c requires the third-party y with two labelled entries.  *)
(***************************************************************************)
Plain(text) == <<DepConstraint(text, None, None, None)>>

YSpecs == <<DepConstraint(<<GE1>>, None, None, None),
            DepConstraint(<<LT2, GE1>>, "extra1", "version", "o1")>>

XDep(text) == IF text = None THEN << >> ELSE << <<"x", Plain(text)>> >>

Workspace(xa, xb, xc) ==
    << Package("a", "poetry", <<"a">>, << <<"b", Plain(<<GE1>>)>> >> \o XDep(xa)),
       Package("b", "maturin", <<"b", "b_ext">>, XDep(xb)),
       Package("c", "poetry", << >>, XDep(xc) \o << <<"y", YSpecs>> >>) >>

Workspaces ==
    {Workspace(xa, xb, xc) :
        xa \in {None, <<GE1>>},
        xb \in {<<LT1>>, <<LT2>>},
        xc \in {None, <<GE1>>, <<LT1>>}}

\* a cache left by an earlier install, made when the package required nothing
OldManifest(n) ==
    [kind |-> "modified", name |-> n, version |-> "0.1.0",
     packages |-> [present |-> FALSE, include |-> << >>], dependencies |-> << >>]

WarmCache(n) == [EmptyCache EXCEPT !.modToml = OldManifest(n),
                                   !.modLock = LockFor(OldManifest(n))]

Init ==
    /\ packages \in Workspaces
    /\ \E locked \in SUBSET AllNames :
          loc = [n \in AllNames |->
                   [pyproject |-> RealToml(n),
                    lock |-> IF n \in locked THEN RealLock(n) ELSE NoFile]]
    /\ \E warm \in BOOLEAN :
          cache = [n \in AllNames |-> IF warm THEN WarmCache(n) ELSE EmptyCache]
    /\ package = None
    /\ ignore_invalid_dependency = FALSE
    /\ pc = "idle"
    /\ runs = 0
    /\ thirdparty_pkgs = << >>
    /\ invalid_thirdparty_pkgs = {}
    /\ pkg_i = 0
    /\ dep_i = 0
    /\ reports = << >>
    /\ cur = None
    /\ sib_i = 0
    /\ masked = NoMask
    /\ calls = << >>
    /\ raised = None
    /\ entry = NoEntry
    /\ start = [loc |-> loc, cache |-> cache]
    /\ FCSAtRest
    /\ GraphAtRest
    /\ CLIAtRest

Next ==
    \/ StartInstall
    \/ AggregateDep
    \/ WriteModifiedManifest
    \/ StageManifest
    \/ StageLock
    \/ CopyManifest
    \/ CopyLock
    \/ PoetryCheck
    \/ PoetryLock
    \/ PoetryInstall
    \/ Finally
    \/ BareEnter
    \/ BareExit
    \/ InstallReturns

Spec == Init /\ [][Next]_vars

(***************************************************************************)
(* Properties of the install command                                       *)
(***************************************************************************)
\* install_pkg_dependencies was entered in this invocation and has ended
(***************************************************************************)
(* SpecCLI: one invocation of the command line entry point                 *)
(***************************************************************************)
\* versions of the distribution; "0.0.0" is also what `version` falls back
\* to when the distribution metadata is missing (__main__.py 12-15)
Releases == {"0.0.0", "1.0.0", "1.1.0", "2.0.0"}

Subcommands == {"install", "build", "git"}

\* PyPI.get_latest_version(name): the latest published version, or None when
\* the query fails or the name is unknown; it never raises
get_latest_version == Releases \cup {None}

OutdatedEvenIfUnknown(latest) == version # latest

\* __main__.py 20
Outdated(latest) == latest # None /\ version # latest

InitCLI ==
    /\ argv \in Subcommands \cup {"--version"}
    /\ version \in Releases
    /\ latest_version = Unset
    /\ log = << >>
    /\ events = << >>
    /\ cli_pc = "parse"
    /\ exit_code = None
    /\ InstallAtRest
    /\ FCSAtRest
    /\ GraphAtRest

\* __main__.py 31: --version prints the version and exits before the group
\* callback runs
VersionOption ==
    /\ cli_pc = "parse"
    /\ argv = "--version"
    /\ cli_pc' = "exit"
    /\ exit_code' = 0
    /\ UNCHANGED <<argv, version, latest_version, log, events>>
    /\ UNCHANGED installVars
    /\ UNCHANGED fcsVars
    /\ UNCHANGED graphVars

\* __main__.py 18-25 and 32-33: the group callback runs check_upgrade
CheckUpgrade ==
    /\ cli_pc = "parse"
    /\ argv \in Subcommands
    /\ \E latest \in get_latest_version :
          /\ latest_version' = latest
          /\ log' = Append(log, IF Outdated(latest) THEN "warning" ELSE "trace")
    /\ events' = Append(events, [what |-> "get_latest_version",
                                  outcome |-> latest_version'])
    /\ cli_pc' = "dispatch"
    /\ UNCHANGED <<argv, version, exit_code>>
    /\ UNCHANGED installVars
    /\ UNCHANGED fcsVars
    /\ UNCHANGED graphVars

\* __main__.py 36-42: the subcommand runs; its exception, if any, is the
\* failure exit of the process
RunSubcommand ==
    /\ cli_pc = "dispatch"
    /\ \E outcome \in {"returned", "raised"} :
          /\ events' = Append(events, [what |-> argv, outcome |-> outcome])
          /\ exit_code' = IF outcome = "raised" THEN 1 ELSE 0
    /\ cli_pc' = "exit"
    /\ UNCHANGED <<argv, version, latest_version, log>>
    /\ UNCHANGED installVars
    /\ UNCHANGED fcsVars
    /\ UNCHANGED graphVars

NextCLI ==
    \/ VersionOption
    \/ CheckUpgrade
    \/ RunSubcommand

SpecCLI == InitCLI /\ [][NextCLI]_vars

TargetInstallEnded == entry.pkg # None /\ pc \in {"siblings", "exit"}

TableNames(manifest) ==
    {manifest.dependencies[i].depname : i \in DOMAIN manifest.dependencies}

ThirdPartyNames(ps) == UNION {DepNames(ps[i]) : i \in DOMAIN ps} \ Names(ps)

FilesTouched == loc # start.loc \/ cache # start.cache \/ calls # << >>

\* C1: whenever the cached/merged install of P has ended, normally or by a
\* failure of a step after the first move, P's real pyproject.toml is at
\* P's location with its pre-install content, and so is P's real
\* poetry.lock if P had one.
C1_RealFilesRestored ==
    TargetInstallEnded =>
        /\ loc[entry.pkg].pyproject = entry.pyproject
        /\ entry.lock # NoFile => loc[entry.pkg].lock = entry.lock

\* C2: when the toolchain delegation of P's cached/merged install raised,
\* the cache's poetry.modified.lock is what it was before that install.
C2_CacheLockOnlyOnSuccess ==
    ( /\ TargetInstallEnded
      /\ raised = "ExecProcessError"
      /\ calls # << >>
      /\ calls[Len(calls)].pkg = entry.pkg )
    => cache[entry.pkg].modLock = entry.modLock

\* C3: no file and no environment is touched before the aggregation loop
\* has finished; a conflict without tolerance ends the command with
\* IncompatibleDependencyError and nothing touched.
C3_AggregationFirst ==
    /\ FilesTouched => (pc # "aggregate" /\ pkg_i > Len(packages))
    /\ (reports # << >> /\ ~ ignore_invalid_dependency) =>
          /\ pc = "exit"
          /\ raised = "IncompatibleDependencyError"
          /\ entry = NoEntry
          /\ ~ FilesTouched

C3_Witness ==
    /\ pc = "exit"
    /\ raised = "IncompatibleDependencyError"
    /\ ~ ignore_invalid_dependency
    /\ Len(reports) = 1
    /\ reports[1].depname = "x"

TargetInstalledOk ==
    \E j \in DOMAIN calls :
        calls[j].pkg = package /\ calls[j].cmd = "install" /\ calls[j].ok

\* C4: a sibling's bare install begins only after the target's
\* cached/merged install has succeeded and put the target's real manifest
\* and lock back; after a failed target install no sibling is installed.
C4_TargetBeforeSiblings ==
    /\ (cur # None /\ cur # package) =>
          /\ TargetInstalledOk
          /\ loc[package].pyproject = entry.pyproject
          /\ loc[package].lock = entry.lock
          /\ cache[package].origToml = NoFile
          /\ cache[package].origLock = NoFile
    /\ \A k \in DOMAIN calls :
          calls[k].pkg # package =>
             /\ \E j \in 1..(k - 1) :
                   calls[j].pkg = package /\ calls[j].cmd = "install" /\ calls[j].ok
             /\ \A j \in (k + 1)..Len(calls) : calls[j].pkg # package

\* a sibling's toolchain call follows the target's, whose lock is back
C4_Witness ==
    /\ cur = "b"
    /\ package = "a"
    /\ calls # << >>
    /\ calls[Len(calls)].pkg = "b"
    /\ entry.lock # NoFile
    /\ loc["a"].lock = entry.lock

InstallCallsOf(n) ==
    {k \in DOMAIN calls : calls[k].pkg = n /\ calls[k].cmd = "install"}

\* C5: when an invocation succeeds, every local package other than the
\* target was bare-installed exactly once, the target never, and every
\* toolchain call used the environment derived from the target.
C5_SiblingsOnceSameVenv ==
    (pc = "exit" /\ raised = None) =>
        /\ \A n \in Names(packages) \ {package} :
              /\ Cardinality(InstallCallsOf(n)) = 1
              /\ \A k \in InstallCallsOf(n) : calls[k].quiet
        /\ \A k \in DOMAIN calls :
              /\ calls[k].pkg \in Names(packages)
              /\ calls[k].pkg = package => ~ calls[k].quiet
              /\ calls[k].venv = venv_path(package)

C5_Witness ==
    /\ pc = "exit"
    /\ raised = None
    /\ package = "b"
    /\ Cardinality(InstallCallsOf("a")) = 1
    /\ Cardinality(InstallCallsOf("c")) = 1
    /\ Cardinality(InstallCallsOf("b")) = 1

\* C6 as stated: the dependency table of the merged manifest written for
\* the target holds only third-party dependencies the target declares.
C6_OnlyTargetDeps ==
    entry.pkg # None =>
        TableNames(cache[package].modToml)
            \subseteq DepNames(PkgByName(packages, package)) \ Names(packages)

\* C6 amended: the dependency table of the merged manifest written for the
\* target holds exactly one entry for every third-party dependency that any
\* discovered local package declares.
C6_AllThirdPartyDeps ==
    entry.pkg # None =>
        LET m == cache[package].modToml
        IN /\ TableNames(m) = ThirdPartyNames(packages)
           /\ Len(m.dependencies) = Cardinality(TableNames(m))

\* target a does not declare y, c does, and y is in a's merged manifest
C6_Witness ==
    /\ entry.pkg = "a"
    /\ "y" \notin DepNames(PkgByName(packages, "a"))
    /\ "y" \in TableNames(cache["a"].modToml)

\* C7: with conflict tolerance, a dependency whose merge failed is marked
\* invalid, is skipped for every later package, and is absent from the
\* dependency table of the merged manifest.
C7_InvalidExcluded ==
    ignore_invalid_dependency =>
        /\ \A i \in DOMAIN reports : reports[i].depname \in invalid_thirdparty_pkgs
        /\ \A i, j \in DOMAIN reports :
              reports[i].depname = reports[j].depname => i = j
        /\ entry.pkg # None =>
              TableNames(cache[package].modToml) \cap invalid_thirdparty_pkgs = {}

\* C8: a conflict report names the dependency and lists every local
\* package of the workspace that requires it.
C8_ReportListsAllRequirers ==
    \A i \in DOMAIN reports :
        reports[i].pkgs =
            {n \in Names(packages) :
                reports[i].depname \in DepNames(PkgByName(packages, n))}

(***************************************************************************)
(* C9                                                                      *)
(***************************************************************************)
HasDuplicateLabel(specs) ==
    \E i, j \in DOMAIN specs : i < j /\ LabelOf(specs[i]) = LabelOf(specs[j])

LabelSet(specs) == {LabelOf(specs[i]) : i \in DOMAIN specs}

ContradictoryShared(a, b) ==
    \E i \in DOMAIN a, j \in DOMAIN b :
        /\ LabelOf(a[i]) = LabelOf(b[j])
        /\ ~ \E v \in Versions :
               /\ \A k \in DOMAIN a[i].version_spec : Satisfies(v, a[i].version_spec[k])
               /\ \A k \in DOMAIN b[j].version_spec : Satisfies(v, b[j].version_spec[k])

MustRaise(a, b) ==
    \/ HasDuplicateLabel(a)
    \/ HasDuplicateLabel(b)
    \/ LabelSet(a) # LabelSet(b)
    \/ ContradictoryShared(a, b)

\* C9: find_common_specs raises IncompatibleDependencyError exactly when a
\* side repeats a constraint label (None counting as ""), the two label
\* sets differ, or some shared label's two ranges have no common version;
\* in every other case it returns.
C9_RaisesExactlyWhen ==
    fcs_result # Pending =>
        (fcs_result.ok = FALSE <=> MustRaise(depspecs, another_depspecs))

\* the labels {"", "extra1"} against {""} raise "different number of specs"
C9_Witness ==
    /\ fcs_result # Pending
    /\ ~ fcs_result.ok
    /\ fcs_result.error = "different number of specs"
    /\ LabelSet(depspecs) = {"", "extra1"}
    /\ LabelSet(another_depspecs) = {""}

(***************************************************************************)
(* C10                                                                     *)
(***************************************************************************)
\* the dependency relation among the given local packages
LocalDepRel(ps) ==
    {<<ps[i].name, d>> : i \in DOMAIN ps, d \in Names(ps)} \cap
    UNION {{<<ps[i].name, d>> : d \in DepNames(ps[i])} : i \in DOMAIN ps}

\* pairs joined by a path of at most k + 1 edges of R
RECURSIVE Closure(_, _)
Closure(R, k) ==
    IF k = 0 THEN R
    ELSE LET C == Closure(R, k - 1)
             ends == {e[1] : e \in R} \cup {e[2] : e \in R}
         IN C \cup {e \in ends \X ends :
                      \E m \in ends : <<e[1], m>> \in C /\ <<m, e[2]>> \in R}

LocalCyclic(ps) == \E n \in Names(ps) : <<n, n>> \in Closure(LocalDepRel(ps), Len(ps))

DeclaredEdges(ps) ==
    UNION {{<<ps[i].name, d>> : d \in DepNames(ps[i])} : i \in DOMAIN ps}

GraphEdges(g) == UNION {{<<n, g.adj[n][k]>> : k \in DOMAIN g.adj[n]} : n \in DOMAIN g.adj}

\* C10: from_pkgs fails exactly when the local dependency relation has a
\* cycle (a self-dependency included); otherwise the graph has one node per
\* local package, one per third-party dependency name, and one edge per
\* declared dependency.
C10_CycleIffFails ==
    graph # Pending =>
        /\ (graph.ok = FALSE <=> LocalCyclic(pkgs))
        /\ graph.ok =>
             /\ SeqToSet(graph.g.nodes) =
                  Names(pkgs) \cup UNION {DepNames(pkgs[i]) : i \in DOMAIN pkgs}
             /\ Len(graph.g.nodes) = Cardinality(SeqToSet(graph.g.nodes))
             /\ \A n \in Names(pkgs) : graph.g.pkg[n].kind = "Package"
             /\ \A n \in SeqToSet(graph.g.nodes) \ Names(pkgs) :
                    graph.g.pkg[n].kind = "ThirdPartyPackage"
             /\ GraphEdges(graph.g) = DeclaredEdges(pkgs)
             /\ \A n \in DOMAIN graph.g.adj :
                    Len(graph.g.adj[n]) = Cardinality(SeqToSet(graph.g.adj[n]))

\* a cycle of length three through local packages only is refused
C10_Witness ==
    /\ graph # Pending
    /\ ~ graph.ok
    /\ Len(pkgs) = 3
    /\ \A i \in DOMAIN pkgs : pkgs[i].name \notin DepNames(pkgs[i])
    /\ \A i, j \in DOMAIN pkgs :
          ~ (pkgs[i].name \in DepNames(pkgs[j]) /\ pkgs[j].name \in DepNames(pkgs[i]))

(***************************************************************************)
(* C11                                                                     *)
(***************************************************************************)
NamesOf(nodes) == [i \in DOMAIN nodes |-> nodes[i].name]

ReachableFrom(g, p) ==
    {n \in SeqToSet(g.nodes) : <<p, n>> \in Closure(GraphEdges(g), Len(g.nodes))}

\* successors of u, in adjacency order, that are not among the first i
\* nodes of the order
Unvisited(g, order, i, u) ==
    SelectSeq(g.adj[u], LAMBDA m : m \notin {order[j] : j \in 1..i})

\* `order` starts at its first node and always continues with the first
\* unvisited successor of the latest visited node that still has one
IsDfsPreorder(g, order) ==
    \A i \in 1..(Len(order) - 1) :
        \E j \in 1..i :
            /\ Unvisited(g, order, i, order[j]) # << >>
            /\ \A l \in (j + 1)..i : Unvisited(g, order, i, order[l]) = << >>
            /\ order[i + 1] = Head(Unvisited(g, order, i, order[j]))

\* C11: dependencies(p) lists exactly the nodes reachable from p by one or
\* more edges, each once, never p, in depth-first pre-order; the third-party
\* and the local lists are disjoint, cover it, and hold the reachable
\* non-local and the reachable local packages.
C11_DependenciesAreReachable ==
    query # NoQuery =>
        LET p == query.pkg_name
            g == graph.g
            deps == NamesOf(query.dependencies)
            third == NamesOf(query.third_party_dependencies)
            local == NamesOf(query.local_dependencies)
        IN /\ SeqToSet(deps) = ReachableFrom(g, p)
           /\ Len(deps) = Cardinality(SeqToSet(deps))
           /\ p \notin SeqToSet(deps)
           /\ IsDfsPreorder(g, <<p>> \o deps)
           /\ SeqToSet(third) \cap SeqToSet(local) = {}
           /\ SeqToSet(third) \cup SeqToSet(local) = SeqToSet(deps)
           /\ Len(third) + Len(local) = Len(deps)
           /\ SeqToSet(third) = ReachableFrom(g, p) \ Names(pkgs)
           /\ SeqToSet(local) = ReachableFrom(g, p) \cap Names(pkgs)
           /\ \A i \in DOMAIN query.third_party_dependencies :
                 query.third_party_dependencies[i].kind = "ThirdPartyPackage"
           /\ \A i \in DOMAIN query.local_dependencies :
                 query.local_dependencies[i].kind = "Package"

\* a depends on b and x, b depends on x: x is reached through b first
C11_Witness ==
    /\ query # NoQuery
    /\ query.pkg_name = "a"
    /\ Len(pkgs) = 2
    /\ NamesOf(query.dependencies) = <<"b", "x">>
    /\ NamesOf(query.third_party_dependencies) = <<"x">>
    /\ NamesOf(query.local_dependencies) = <<"b">>
    /\ graph.g.adj["a"] = <<"b", "x">>
    /\ graph.g.adj["b"] = <<"x">>

(***************************************************************************)
(* C12                                                                     *)
(***************************************************************************)
\* what the generated manifest of pkg is said to carry
PackagesEntryStated(pkg, manifest) ==
    IF pkg.include = <<pkg.name>>
    THEN ~ manifest.packages.present
    ELSE manifest.packages.present /\ manifest.packages.include = pkg.include

BareManifestActive == masked # NoMask /\ pc \in {"tool_check", "tool_lock", "tool_install"}

\* C12: the manifest of the bare install and of the cached/merged install
\* omits `packages` exactly when the include list is [package_name]; for any
\* other include list the entry is present and lists every entry in order.
C12_PackagesOmittedOnlyForOwnName ==
    /\ BareManifestActive =>
          PackagesEntryStated(PkgByName(packages, cur), loc[cur].pyproject)
    /\ entry # NoEntry =>
          PackagesEntryStated(PkgByName(packages, entry.pkg), cache[entry.pkg].modToml)

(***************************************************************************)
(* C13                                                                     *)
(***************************************************************************)
UnknownTarget == pc # "idle" /\ package \notin Names(packages)

\* C13: when the target is not among the discovered packages the command
\* fails fatally; no manifest, lock or cache file of any package is created,
\* moved or overwritten and no toolchain command is run.
C13_UnknownTargetTouchesNothing ==
    UnknownTarget =>
        /\ pc \in {"aggregate", "exit"}
        /\ pc = "exit" => raised \in {"KeyError", "IncompatibleDependencyError"}
        /\ loc = start.loc
        /\ cache = start.cache
        /\ calls = << >>
        /\ masked = NoMask
        /\ entry = NoEntry

\* the lookup of the unknown target has failed after a complete aggregation
C13_Witness ==
    /\ UnknownTarget
    /\ pc = "exit"
    /\ raised = "KeyError"
    /\ thirdparty_pkgs # << >>

(***************************************************************************)
(* C14                                                                     *)
(***************************************************************************)
EventsOf(whats) == SelectSeq(events, LAMBDA ev : ev.what \in whats)

Dispatching == argv \in Subcommands /\ cli_pc \in {"dispatch", "exit"}

\* C14: on an invocation that dispatches a subcommand the self-update check
\* runs exactly once and before the subcommand; a warning is logged exactly
\* when the registry returned a latest version that differs from the running
\* one; when the query yields no version, no warning is logged and the
\* subcommand still runs and alone decides the exit status.
C14_UpdateCheckOnceNeverFatal ==
    Dispatching =>
        /\ Len(EventsOf({"get_latest_version"})) = 1
        /\ events[1].what = "get_latest_version"
        /\ Len(log) = 1
        /\ ("warning" \in SeqToSet(log)) <=>
               (latest_version \in Releases /\ latest_version # version)
        /\ latest_version = None => "warning" \notin SeqToSet(log)
        /\ cli_pc = "dispatch" => ENABLED RunSubcommand
        /\ cli_pc = "exit" =>
              /\ Len(events) = 2
              /\ events[2].what = argv
              /\ exit_code = IF events[2].outcome = "raised" THEN 1 ELSE 0

\* the registry gave no version, the subcommand ran and failed on its own
C14_Witness ==
    /\ Dispatching
    /\ cli_pc = "exit"
    /\ latest_version = None
    /\ log = <<"trace">>
    /\ events[2].outcome = "raised"
    /\ exit_code = 1

\* the registry gave a newer version: one warning, then the subcommand
C14_WitnessWarning ==
    /\ Dispatching
    /\ cli_pc = "exit"
    /\ version = "1.0.0"
    /\ latest_version = "1.1.0"
    /\ log = <<"warning">>
    /\ exit_code = 0

(***************************************************************************)
(* C15                                                                     *)
(***************************************************************************)
ToolPcs == {"tool_check", "tool_lock", "tool_install"}

CallsOf(n) == SelectSeq(calls, LAMBDA c : c.pkg = n)

Delegating(n) == cur = n /\ pc \in ToolPcs

\* the commands of one delegation, in order
ToolchainOrder(n) ==
    LET s == CallsOf(n)
    IN /\ Len(s) <= 3
       /\ \A i \in DOMAIN s :
             /\ s[i].cmd = "check" => i = 1
             /\ s[i].cmd = "lock" <=> (i > 1 /\ s[i - 1].cmd = "check" /\ ~ s[i - 1].ok)
             /\ s[i].cmd = "install" => i = Len(s)
             /\ (s[i].cmd = "check" /\ i < Len(s)) =>
                   s[i + 1].cmd = IF s[i].ok THEN "install" ELSE "lock"
             /\ (s[i].cmd = "lock" /\ i < Len(s)) => s[i].ok
             \* a failure other than the check's propagates; nothing runs after it
             /\ (s[i].cmd # "check" /\ ~ s[i].ok) =>
                   /\ raised = "ExecProcessError"
                   /\ ~ Delegating(n)
                   /\ calls[Len(calls)] = s[i]
       \* a delegation that is over ended with the install step or with the
       \* failed regeneration
       /\ (s # << >> /\ ~ Delegating(n)) =>
             \/ s[Len(s)].cmd = "install"
             \/ s[Len(s)].cmd = "lock" /\ ~ s[Len(s)].ok
       /\ (Delegating(n) /\ s # << >>) =>
             /\ s[Len(s)].cmd # "install"
             /\ pc = (IF s[Len(s)].cmd = "check" /\ ~ s[Len(s)].ok
                      THEN "tool_lock" ELSE "tool_install")
       /\ (Delegating(n) /\ s = << >>) => (pc = "tool_check" \/ pc = "tool_install")

\* the first step of a delegation: the check runs iff a lock file is active
CheckIffActiveLock ==
    pc = "tool_check" =>
        IF loc[cur].lock # NoFile
        THEN /\ Len(calls') = Len(calls) + 1
             /\ calls'[Len(calls')].cmd = "check"
             /\ calls'[Len(calls')].pkg = cur
        ELSE calls' = calls /\ pc' = "tool_install"

\* commands run only inside a delegation, one per step
CommandsOnlyInDelegation ==
    /\ pc \notin ToolPcs => (calls' = calls \/ calls' = << >>)
    /\ pc \in ToolPcs => (calls' = calls \/ SubSeq(calls', 1, Len(calls)) = calls)

\* C15: install_poetry_package runs the lock check iff an active poetry.lock
\* exists, the lock regeneration iff the check ran and failed, and the
\* install step last, exactly once, iff no earlier step raised; a failed
\* check never raises, a failed regeneration or install propagates, and no
\* command is retried.
C15_ToolchainOrder ==
    /\ [](\A n \in AllNames : ToolchainOrder(n))
    /\ [][CheckIffActiveLock /\ CommandsOnlyInDelegation]_vars

\* a delegation whose check failed, whose regeneration passed and whose
\* install step then failed
C15_Witness ==
    /\ pc = "exit"
    /\ raised = "ExecProcessError"
    /\ Len(CallsOf(package)) = 3
    /\ CallsOf(package)[1].cmd = "check" /\ ~ CallsOf(package)[1].ok
    /\ CallsOf(package)[2].cmd = "lock" /\ CallsOf(package)[2].ok
    /\ CallsOf(package)[3].cmd = "install" /\ ~ CallsOf(package)[3].ok

(***************************************************************************)
(* C16                                                                     *)
(***************************************************************************)
TargetDelegating == pc \in ToolPcs /\ cur = package

\* the state handed to the toolchain by the cached/merged install
DelegationStartsFromCachedLock ==
    (TargetDelegating /\ pc = "tool_check") =>
        /\ loc[cur].lock = entry.modLock
        /\ loc[cur].lock = start.cache[cur].modLock
        /\ cache[cur].modLock = entry.modLock

\* what is active while the toolchain runs: the merged manifest, and the
\* cached lock, no lock, or the lock the toolchain has made of the merged
\* manifest; the real files are set aside
DelegationFiles ==
    TargetDelegating =>
        /\ loc[cur].pyproject = cache[cur].modToml
        /\ loc[cur].pyproject =
              ModifiedManifest(PkgByName(packages, cur), DepsArgument(thirdparty_pkgs))
        /\ loc[cur].lock \in {entry.modLock, NoFile, LockFor(cache[cur].modToml)}
        /\ cache[cur].origToml = entry.pyproject
        /\ cache[cur].origLock = entry.lock
        /\ entry.lock # NoFile => loc[cur].lock # entry.lock

\* the end of an install that went through the toolchain: the lock at the
\* package location becomes poetry.modified.lock
LockRotated ==
    (pc = "finally" /\ CallsOf(cur) # << >> /\ loc[cur].lock # NoFile) =>
        cache'[cur].modLock = loc[cur].lock

\* poetry.modified.lock of a package changes in no other step
ModifiedLockOnlyRotated ==
    \A n \in AllNames :
        cache'[n].modLock # cache[n].modLock => (pc = "finally" /\ cur = n)

Admits(version_spec) ==
    {v \in Versions : \A k \in DOMAIN version_spec : Satisfies(v, version_spec[k])}

EntryOf(specs, label) ==
    specs[CHOOSE j \in DOMAIN specs : LabelOf(specs[j]) = label]

\* C17: a successful find_common_specs returns one entry per label of the
\* first argument, in the first argument's order, each with the first
\* argument's label (None and "" being the same label), version_spec_field
\* and origin_spec, and with a range that admits exactly the versions both
\* sides admit for that label.
C17_MergedEntriesFollowFirstSide ==
    (fcs_result # Pending /\ fcs_result.ok) =>
        LET r == fcs_result.specs
        IN /\ Len(r) = Len(depspecs)
           /\ Cardinality(LabelSet(r)) = Len(r)
           /\ \A i \in DOMAIN r :
                 /\ LabelOf(r[i]) = LabelOf(depspecs[i])
                 /\ r[i].version_spec_field = depspecs[i].version_spec_field
                 /\ r[i].origin_spec = depspecs[i].origin_spec
                 /\ Admits(r[i].version_spec) =
                       Admits(depspecs[i].version_spec) \cap
                       Admits(EntryOf(another_depspecs, LabelOf(depspecs[i])).version_spec)

\* two labels, given in different orders by the two sides; the first merged
\* range is narrower than either side's
C17_Witness ==
    /\ fcs_result # Pending
    /\ fcs_result.ok
    /\ Len(depspecs) = 2
    /\ LabelOf(depspecs[1]) = "extra1"
    /\ LabelOf(another_depspecs[1]) = ""
    /\ depspecs[1].version_spec_field = "version"
    /\ depspecs[2].version_spec_field = None
    /\ Admits(fcs_result.specs[1].version_spec) # Admits(depspecs[1].version_spec)
    /\ Admits(fcs_result.specs[1].version_spec) # Admits(another_depspecs[2].version_spec)

(***************************************************************************)
(* C18                                                                     *)
(***************************************************************************)
Declarers(ps, d) == {i \in DOMAIN ps : d \in DepNames(ps[i])}

DeclaredSpecs(p, d) ==
    p.dependencies[CHOOSE j \in DOMAIN p.dependencies : p.dependencies[j][1] = d][2]

NodeCount(g, n) == Cardinality({k \in DOMAIN g.nodes : g.nodes[k] = n})

\* C18: after a successful from_pkgs every non-local dependency name has
\* exactly one ThirdPartyPackage node; its invert_dependencies maps exactly
\* the declaring local packages to the constraints each declares and its
\* type is that of the first declaring package; no local name has a
\* ThirdPartyPackage node.
C18_ThirdPartyNodes ==
    (graph # Pending /\ graph.ok) =>
        LET g == graph.g
        IN /\ \A d \in ThirdPartyNames(pkgs) :
                 LET first == CHOOSE i \in Declarers(pkgs, d) :
                                  \A j \in Declarers(pkgs, d) : i <= j
                 IN /\ NodeCount(g, d) = 1
                    /\ g.pkg[d].kind = "ThirdPartyPackage"
                    /\ g.pkg[d].name = d
                    /\ DOMAIN g.pkg[d].invert_dependencies =
                          {pkgs[i].name : i \in Declarers(pkgs, d)}
                    /\ \A i \in Declarers(pkgs, d) :
                          g.pkg[d].invert_dependencies[pkgs[i].name] =
                              DeclaredSpecs(pkgs[i], d)
                    /\ g.pkg[d].type = pkgs[first].type
           /\ \A n \in Names(pkgs) :
                 /\ NodeCount(g, n) = 1
                 /\ g.pkg[n].kind = "Package"
           /\ SeqToSet(g.nodes) = Names(pkgs) \cup ThirdPartyNames(pkgs)

\* x is declared by all three packages, a poetry package first, and b
\* depends on the local package c as well
C18_Witness ==
    /\ graph # Pending
    /\ graph.ok
    /\ Len(pkgs) = 3
    /\ \A i \in DOMAIN pkgs : "x" \in DepNames(pkgs[i])
    /\ "c" \in DepNames(pkgs[2])
    /\ graph.g.pkg["x"].type = "poetry"
    /\ DOMAIN graph.g.pkg["x"].invert_dependencies = {"a", "b", "c"}

(***************************************************************************)
(* C19                                                                     *)
(***************************************************************************)
NothingStagedAside(n) ==
    cache[n].origToml = NoFile /\ cache[n].origLock = NoFile

\* no cached/merged install is between its first rename and its finally block
OutsideCachedInstall ==
    \/ pc \in {"idle", "exit", "aggregate", "siblings", "unmask"}
    \/ pc \in ToolPcs /\ cur # package

\* C19: whenever a cached/merged install of P has ended, normally or with a
\* toolchain failure, P's cache directory holds neither pyproject.origin.toml
\* nor poetry.origin.lock; so no later install finds a staged-aside file of an
\* earlier one.
C19_NoStagedFileLeftBehind ==
    /\ (TargetInstallEnded /\ raised \in {None, "ExecProcessError"}) =>
          NothingStagedAside(entry.pkg)
    /\ OutsideCachedInstall => \A n \in AllNames : NothingStagedAside(n)

\* the toolchain failed on a package whose real manifest and real lock had
\* both been staged aside
C19_Witness ==
    /\ TargetInstallEnded
    /\ raised = "ExecProcessError"
    /\ entry.lock # NoFile
    /\ CallsOf(entry.pkg) # << >>
    /\ loc[entry.pkg].lock = entry.lock
    /\ NothingStagedAside(entry.pkg)

(***************************************************************************)
(* C20                                                                     *)
(***************************************************************************)
\* a step of the aggregation in which a merge fails and is tolerated
ToleratedFailure ==
    /\ pc = "aggregate"
    /\ ignore_invalid_dependency
    /\ Len(reports') = Len(reports) + 1

\* what such a step does to the table: the entry of the failing dependency
\* keeps its constraints and gains the package at hand, nothing else moves
FailureKeepsConstraints ==
    ToleratedFailure =>
        LET d == reports'[Len(reports')].depname
            p == packages[pkg_i].name
            k == TpIndex(thirdparty_pkgs, d)
        IN /\ d = packages[pkg_i].dependencies[dep_i][1]
           /\ TpHas(thirdparty_pkgs, d)
           /\ Len(thirdparty_pkgs') = Len(thirdparty_pkgs)
           /\ thirdparty_pkgs'[k].depname = d
           /\ thirdparty_pkgs'[k].specs = thirdparty_pkgs[k].specs
           /\ thirdparty_pkgs'[k].pkgs = thirdparty_pkgs[k].pkgs \cup {p}
           /\ \A j \in DOMAIN thirdparty_pkgs :
                 j # k => thirdparty_pkgs'[j] = thirdparty_pkgs[j]
           /\ d \in invalid_thirdparty_pkgs'

\* the entry of an invalid dependency is final for the rest of the invocation
InvalidEntryFrozen ==
    runs' = runs =>
        \A k \in DOMAIN thirdparty_pkgs :
            thirdparty_pkgs[k].depname \in invalid_thirdparty_pkgs =>
                /\ k \in DOMAIN thirdparty_pkgs'
                /\ thirdparty_pkgs'[k] = thirdparty_pkgs[k]

\* C20: with conflict tolerance, a failed merge of p's requirement for d
\* leaves d's recorded constraints as they were and adds only p to d's
\* requiring set; no later package changes d's entry; the entries of all
\* other dependencies are unaffected.
C20_FailedMergeKeepsEntry == [][FailureKeepsConstraints /\ InvalidEntryFrozen]_vars

\* b's requirement for x failed against a's; c requires x too and was skipped
C20_Witness ==
    /\ ignore_invalid_dependency
    /\ pc = "aggregate"
    /\ pkg_i > Len(packages)
    /\ "x" \in invalid_thirdparty_pkgs
    /\ "x" \in DepNames(PkgByName(packages, "c"))
    /\ TpHas(thirdparty_pkgs, "x")
    /\ thirdparty_pkgs[TpIndex(thirdparty_pkgs, "x")].pkgs = {"a", "b"}
    /\ thirdparty_pkgs[TpIndex(thirdparty_pkgs, "x")].specs =
          PkgByName(packages, "a").dependencies[2][2]

=============================================================================
